---------------------------- MODULE Spec2Model ----------------------------
(***************************************************************************)
(* Atlassian Cloud backup: the resumable, retrying downloader              *)
(* (utils/http_utils.py) and the backup orchestration of one instance      *)
(* (backup_controller.py, jira/client.py, confluence/client.py,            *)
(* utils/file_utils.py).                                                   *)
(*                                                                         *)
(* Four specifications share the module:                                   *)
(*   DownloadSpec  one call of download_file, byte by byte;                *)
(*   Spec          successive runs of BackupController.orchestrate, one    *)
(*                 action per HTTP request of the two clients;             *)
(*   DriverSpec    the loop over the configured instances of main(), in    *)
(*                 main.py and in the single-file program backup.py;       *)
(*   ConfigSpec    get_config_value of main.py and the folders FileManager *)
(*                 computes for the artefacts of one instance.             *)
(***************************************************************************)
EXTENDS Integers, Sequences, FiniteSets, TLC

VARIABLES
    \* ---- download_file (http_utils.py) --------------------------------
    resource,       \* the bytes the url serves
    init_file,      \* the destination as found when download_file was called
    file_exists,    \* os.path.exists(filename)
    file,           \* content of the destination file
    bytes_successfully_written_to_disk,
    current_expected_on_disk,
    file_open_mode, \* 'wb' / 'ab' of the attempt in progress
    attempt,        \* loop variable of `for attempt in range(max_retries + 1)`
    stream,         \* bytes of the response body not yet yielded by iter_content
    dpc,            \* position in download_file
    gets,           \* number of GET requests issued by this call
    last_range,     \* offset of the Range header of the latest GET, NoRange if none
    last_status,    \* status code of the latest response, NoStatus before any
    only_206,       \* every response received so far had status 206
    sleeps,         \* arguments of time.sleep, in order
    error,          \* exception that left download_file, NoError if none
    failures,       \* number of attempts that ended in an exception
    last_failure,   \* the latest retriable exception caught, NoError if none
    \* ---- the Atlassian servers ----------------------------------------
    srv_last,       \* Jira: what /export/lastTaskId answers (NoneId: empty body)
    srv_task,       \* Jira: [submitted, state] of the export task srv_last
    conf_mode,      \* Confluence: how getprogress.json answers the status query
    conf,           \* Confluence: the descriptor getprogress.json serves
    conf_pending,   \* Confluence: an export was triggered and has not started yet
    \* ---- the status file and one orchestrate run ------------------------
    status_file,    \* [exists, data] of <folder>/backup_status.json
    start_file,     \* status_file as it was when the run started
    run,            \* number of orchestrate runs started
    pc,             \* position in orchestrate
    now,            \* datetime.now(timezone.utc) of the run, in hours
    status,         \* orchestrate: status (the loaded status)
    updated,        \* orchestrate: updated (the merged delta so far)
    result,         \* what orchestrate returned: "true", "false", "error", "none"
    wrote,          \* save_status wrote the status file in this run
    reqs,           \* the requests of this run, in order
    server_task_id, \* JiraClient.process_backup: server_task_id
    fetch_failed,   \* fetch_last_task_id caught an exception
    http_error,     \* the request of this run answered with an HTTP error status
    task_id,        \* the Jira task being polled / downloaded
    created,        \* _check_existing_task: created (NoTime before it is known)
    jira_mode,      \* "reuse": _check_existing_task, "new": _create_new_backup
    polls,          \* sleeps of the poll loop in progress
    conf_response,  \* status code of the answer to the Confluence status query
    conf_status,    \* ConfluenceClient.process_backup: conf_status
    conf_branch,    \* "reuse": _use_existing_backup, "new": _create_new_backup
    \* ---- main(): the loop over the instances ----------------------------
    program,        \* "main.py" or "backup.py"
    instance_names, \* ATLASSIAN_INSTANCES, split at the commas
    urls,           \* main: urls
    pos,            \* index in urls of the instance the loop is at
    mpc,            \* position in main
    attempts,       \* the instances whose try body was entered, in order
    success_count,  \* main: success_count
    escaped,        \* the exception that left main, NoError if none
    \* ---- the configuration and the folders of one instance --------------
    env_value,      \* os.getenv(env_var): NoneValue when the variable is not set
    properties,     \* the properties file: has the section, has the key, its value
    default_value,  \* the default given to get_config_value
    config_value,   \* what get_config_value returned: backup_target_directory
    instance_url,   \* the url of the instance
    written,        \* artefact ("jira", "confluence", "status") -> folder it was written to
    cpc             \* "config": before get_config_value, "run": after it

dlvars == <<resource, init_file, file_exists, file,
            bytes_successfully_written_to_disk, current_expected_on_disk,
            file_open_mode, attempt, stream, dpc, gets, last_range,
            last_status, only_206, sleeps, error, failures, last_failure>>

\* download_file but for its position
dlrest == <<resource, init_file, file_exists, file,
            bytes_successfully_written_to_disk, current_expected_on_disk,
            file_open_mode, attempt, stream, gets, last_range,
            last_status, only_206, sleeps, error, failures, last_failure>>

srvvars == <<srv_last, srv_task, conf_mode, conf, conf_pending>>

runvars == <<status_file, start_file, run, pc, now, status, updated, result, wrote,
             reqs, server_task_id, fetch_failed, http_error, task_id, created,
             jira_mode, polls, conf_response, conf_status, conf_branch>>

drvvars == <<program, instance_names, urls, pos, mpc, attempts, success_count, escaped>>

cfgvars == <<env_value, properties, default_value, config_value, instance_url, written, cpc>>

\* everything but download_file
ovars == <<srvvars, runvars, drvvars, cfgvars>>

vars == <<dlvars, ovars>>

-----------------------------------------------------------------------------
(* Bounds of the model *)

\* longest remote resource / pre-existing destination file, in bytes
MaxLen == 3
\* bytes per chunk yielded by iter_content (chunk_size, scaled down from 8192)
ChunkSize == 2

\* orchestrate runs in a row
MaxRuns == 2
\* status checks a poll loop may answer with a non-terminal status
MaxPolls == 1

\* most entries of ATLASSIAN_INSTANCES
MaxInstances == 3

Byte == {0, 1}

-----------------------------------------------------------------------------
(* Values: times are hours since the epoch; None is NoneId / NonePath / NoTime *)

NoneId == 0
NoTime == 0
Now0 == 200
Empty == [k \in {} |-> 0]
NonePath == [dir |-> "none", name |-> "none", day |-> 0]
NoFile == [exists |-> FALSE, data |-> Empty]
NoTask == [submitted |-> NoTime, state |-> "none"]
NoDescriptor == [time |-> NoTime, isOutdated |-> "missing", currentStatus |-> "", filename |-> FALSE]

\* dict.get(key, default)
Get(d, k, default) == IF k \in DOMAIN d THEN d[k] ELSE default


RECURSIVE SeqsUpTo(_)
SeqsUpTo(n) ==
    IF n = 0 THEN {<<>>}
    ELSE LET shorter == SeqsUpTo(n - 1)
         IN  shorter \cup {Append(s, b) : s \in {t \in shorter : Len(t) = n - 1}, b \in Byte}

-----------------------------------------------------------------------------
(* download_file: constants and helpers *)

max_retries == 5
initial_delay_seconds == 1

NoRange == -1
NoStatus == 0
NoError == "none"

\* exceptions of the retriable except clause (http_utils.py line 145)
RetriableErrors == {"IncompleteRead", "ChunkedEncodingError", "ConnectionError", "Timeout"}
\* those that requests.request itself can raise before a response exists
ConnectErrors == {"ConnectionError", "Timeout"}

\* variant: the clause also catches HTTPError (as `except RequestException` would)
IsRetriable_AlsoHttpError(e) == e \in RetriableErrors \cup {"HTTPError"}

\* the except clause of line 145 catches exactly these
IsRetriable(e) == e \in RetriableErrors

\* variant: off by one, a sleep and a 7th attempt follow the 6th failure
ShouldRetry_Inclusive(n) == n <= max_retries

\* line 155: another attempt follows unless this was the last one
ShouldRetry(n) == n < max_retries

\* response.raise_for_status(): 4xx and 5xx raise HTTPError
RaisesForStatus(code) == code >= 400

\* variant: the destination is never looked at
SizeOnDisk_AlwaysZero(exists, content) == 0

\* os.path.getsize guarded by os.path.exists (lines 56-57, 149-153)
SizeOnDisk(exists, content) == IF exists THEN Len(content) ELSE 0

\* _prepare_range_request: "Range: bytes=<n>-" iff n > 0 (line 84: "We sent a
\* Range header" under current_expected_on_disk > 0)
PrepareRangeRequest(expected) == IF expected > 0 THEN expected ELSE NoRange

\* variant: the 206 branch forgets to switch to append
OpenModeFor_AlwaysOverwrite(expected, code) == "wb"

\* lines 84-102: open mode chosen from the answer to the (range) request
OpenModeFor(expected, code) ==
    IF expected > 0 /\ code = 206 THEN "ab" ELSE "wb"

\* lines 84-102: the counters after the response was interpreted
CounterAfterResponse(expected, code, counter) ==
    IF expected > 0
    THEN IF code = 206 THEN counter ELSE 0
    ELSE 0

ExpectedAfterResponse(expected, code) ==
    IF expected > 0 /\ code # 206 THEN 0 ELSE expected

\* variant: opening never truncates
OpenFile_NeverTruncate(mode, content) == content

\* open(filename, mode): 'wb' truncates, 'ab' keeps the content
OpenFile(mode, content) == IF mode = "wb" THEN <<>> ELSE content

\* variant: exponent counted from 1
Delay_FromOne(n) == initial_delay_seconds * (2 ^ (n + 1))

\* line 156: delay = initial_delay_seconds * (2 ** attempt)
Delay(n) == initial_delay_seconds * (2 ^ n)

Min(a, b) == IF a < b THEN a ELSE b

Tail_(s, n) == SubSeq(s, n + 1, Len(s))

\* what a server that honours "Range: bytes=<off>-" puts in the 206 body
RangeBody(res, off) == Tail_(res, off)

\* line 114: f.write(chunk) with the next chunk of the body
WriteChunk(content, body) == content \o SubSeq(body, 1, Min(ChunkSize, Len(body)))

\* lines 117-122: the running total after a chunk of n bytes was written
CounterAfterChunk(mode, expected, counter, n) ==
    IF mode = "wb" /\ expected = 0 THEN counter + n
    ELSE IF mode = "ab" THEN counter + n
    ELSE counter


\* status codes the download url can answer with
Codes == {200, 203, 206, 403, 416, 500}

-----------------------------------------------------------------------------
(* download_file as a state machine *)

\* Python's None, for a value that is a str otherwise
NoneValue == "None"

\* no configuration is being read
ConfigIdle ==
    /\ env_value = NoneValue
    /\ properties = [section |-> FALSE, key |-> FALSE, value |-> ""]
    /\ default_value = NoneValue
    /\ config_value = NoneValue
    /\ instance_url = "none"
    /\ written = [k \in {} |-> 0]
    /\ cpc = "idle"

\* main() is not running
DriverIdle ==
    /\ program = "none"
    /\ instance_names = <<>>
    /\ urls = <<>>
    /\ pos = 0
    /\ mpc = "idle"
    /\ attempts = <<>>
    /\ success_count = 0
    /\ escaped = NoError

\* download_file is studied on its own: no orchestrate run is in progress
OrchestrateIdle ==
    /\ srv_last = NoneId
    /\ srv_task = NoTask
    /\ conf_mode = 204
    /\ conf = NoDescriptor
    /\ conf_pending = FALSE
    /\ status_file = NoFile
    /\ start_file = NoFile
    /\ run = 0
    /\ pc = "start"
    /\ now = Now0
    /\ status = Empty
    /\ updated = Empty
    /\ result = "none"
    /\ wrote = FALSE
    /\ reqs = <<>>
    /\ server_task_id = NoneId
    /\ fetch_failed = FALSE
    /\ http_error = "none"
    /\ task_id = NoneId
    /\ created = NoTime
    /\ jira_mode = "none"
    /\ polls = 0
    /\ conf_response = NoStatus
    /\ conf_status = NoDescriptor
    /\ conf_branch = "none"

DLInit ==
    /\ resource \in SeqsUpTo(MaxLen) \ {<<>>}
    /\ file_exists \in BOOLEAN
    /\ file \in (IF file_exists THEN SeqsUpTo(MaxLen) ELSE {<<>>})
    /\ init_file = file
    /\ bytes_successfully_written_to_disk = 0
    /\ current_expected_on_disk = 0
    /\ file_open_mode = "wb"
    /\ attempt = 0
    /\ stream = <<>>
    /\ dpc = "call"
    /\ gets = 0
    /\ last_range = NoRange
    /\ last_status = NoStatus
    /\ only_206 = TRUE
    /\ sleeps = <<>>
    /\ error = NoError
    /\ failures = 0
    /\ last_failure = NoError
    /\ OrchestrateIdle
    /\ DriverIdle
    /\ ConfigIdle

\* lines 49-59: stat the destination before the first attempt
DLStart ==
    /\ UNCHANGED ovars
    /\ dpc = "call"
    /\ bytes_successfully_written_to_disk' = SizeOnDisk(file_exists, file)
    /\ attempt' = 0
    /\ dpc' = "attempt"
    /\ UNCHANGED <<resource, init_file, file_exists, file, current_expected_on_disk,
                   file_open_mode, stream, gets, last_range, last_status, only_206,
                   sleeps, error, failures, last_failure>>

\* lines 145-166: the two except clauses. A retriable error: re-stat, then
\* sleep and go on, or re-raise after the last attempt. HTTPError: re-raise.
Except(e) ==
    /\ failures' = failures + 1
    /\ IF IsRetriable(e)
       THEN /\ bytes_successfully_written_to_disk' = SizeOnDisk(file_exists', file')
            /\ last_failure' = e
            /\ IF ShouldRetry(attempt)
               THEN /\ sleeps' = Append(sleeps, Delay(attempt))
                    /\ attempt' = attempt + 1
                    /\ dpc' = "attempt"
                    /\ error' = error
               ELSE /\ dpc' = "raised"
                    /\ error' = e
                    /\ UNCHANGED <<sleeps, attempt>>
       ELSE /\ dpc' = "raised"
            /\ error' = e
            /\ UNCHANGED <<bytes_successfully_written_to_disk, last_failure,
                           sleeps, attempt>>

\* lines 61-81: the GET of one attempt; InLoop is the range() of the for loop
InLoop == attempt \in 0..max_retries

\* lines 73-81, the GET raises before any response arrived
DLRequestFails ==
    /\ UNCHANGED ovars
    /\ dpc = "attempt"
    /\ InLoop
    /\ \E e \in ConnectErrors :
        /\ current_expected_on_disk' = bytes_successfully_written_to_disk
        /\ gets' = gets + 1
        /\ last_range' = PrepareRangeRequest(current_expected_on_disk')
        /\ last_status' = NoStatus
        /\ UNCHANGED <<file, file_exists>>
        /\ Except(e)
    /\ UNCHANGED <<resource, init_file, file_open_mode, stream, only_206>>

\* lines 73-81 and 163-166: the response has an error status, raise_for_status
\* raises HTTPError
DLHttpError ==
    /\ UNCHANGED ovars
    /\ dpc = "attempt"
    /\ InLoop
    /\ \E code \in Codes :
        /\ RaisesForStatus(code)
        /\ last_status' = code
    /\ only_206' = FALSE
    /\ current_expected_on_disk' = bytes_successfully_written_to_disk
    /\ gets' = gets + 1
    /\ last_range' = PrepareRangeRequest(current_expected_on_disk')
    /\ UNCHANGED <<file, file_exists>>
    /\ Except("HTTPError")
    /\ UNCHANGED <<resource, init_file, file_open_mode, stream>>

\* lines 73-109: a response without error status; interpret it and open the file
DLResponse ==
    /\ UNCHANGED ovars
    /\ dpc = "attempt"
    /\ InLoop
    /\ LET expected == bytes_successfully_written_to_disk
           hdr == PrepareRangeRequest(expected)
       IN  \E code \in Codes :
            /\ ~RaisesForStatus(code)
            \* a 206 answers a Range header whose offset lies inside the resource
            /\ code = 206 => (hdr # NoRange /\ hdr < Len(resource))
            /\ gets' = gets + 1
            /\ last_range' = hdr
            /\ last_status' = code
            /\ only_206' = (only_206 /\ code = 206)
            /\ stream' = (IF code = 206 THEN RangeBody(resource, hdr) ELSE resource)
            /\ file_open_mode' = OpenModeFor(expected, code)
            /\ bytes_successfully_written_to_disk' =
                   CounterAfterResponse(expected, code, bytes_successfully_written_to_disk)
            /\ current_expected_on_disk' = ExpectedAfterResponse(expected, code)
            /\ file' = OpenFile(file_open_mode', file)
            /\ file_exists' = TRUE
    /\ dpc' = "stream"
    /\ UNCHANGED <<resource, init_file, attempt, sleeps, error, failures, last_failure>>

\* lines 110-125: one chunk of the body is written to the file
DLChunk ==
    /\ UNCHANGED ovars
    /\ dpc = "stream"
    /\ stream # <<>>
    /\ LET n == Min(ChunkSize, Len(stream))
       IN  /\ file' = WriteChunk(file, stream)
           /\ stream' = Tail_(stream, n)
           /\ bytes_successfully_written_to_disk' =
                  CounterAfterChunk(file_open_mode, current_expected_on_disk,
                                    bytes_successfully_written_to_disk, n)
    /\ UNCHANGED <<resource, init_file, file_exists, current_expected_on_disk,
                   file_open_mode, attempt, dpc, gets, last_range, last_status,
                   only_206, sleeps, error, failures, last_failure>>

\* lines 140-143: the stream is exhausted, return filename
DLComplete ==
    /\ UNCHANGED ovars
    /\ dpc = "stream"
    /\ stream = <<>>
    /\ dpc' = "returned"
    /\ UNCHANGED <<resource, init_file, file_exists, file,
                   bytes_successfully_written_to_disk, current_expected_on_disk,
                   file_open_mode, attempt, stream, gets, last_range, last_status,
                   only_206, sleeps, error, failures, last_failure>>

\* lines 110-161: iter_content raises a retriable error; what was written stays
DLStreamFails ==
    /\ UNCHANGED ovars
    /\ dpc = "stream"
    /\ \E e \in RetriableErrors :
        /\ UNCHANGED <<file, file_exists>>
        /\ Except(e)
    /\ stream' = <<>>
    /\ UNCHANGED <<resource, init_file, current_expected_on_disk, file_open_mode,
                   gets, last_range, last_status, only_206>>

DLNext ==
    \/ DLStart
    \/ DLRequestFails
    \/ DLHttpError
    \/ DLResponse
    \/ DLChunk
    \/ DLComplete
    \/ DLStreamFails

DownloadSpec == DLInit /\ [][DLNext]_vars

DLTypeOK ==
    /\ dpc \in {"call", "attempt", "stream", "returned", "raised"}
    /\ attempt \in 0..max_retries
    /\ gets \in 0..(max_retries + 1)

-----------------------------------------------------------------------------
(* utils/file_utils.py: the status file *)

\* a datetime, the ISO-8601 string isoformat() makes of it, and any other string
Dt(t) == [dt |-> t]
IsDatetime(v) == DOMAIN v = {"dt"}
IsoFormat(v) == [iso |-> v.dt]
IsIsoString(v) == DOMAIN v = {"iso"}
FromIsoFormat(v) == [dt |-> v.iso]

TimestampKeys == {"last_jira_backup", "last_confluence_backup"}

\* load_status: a missing file is {}; the two timestamps are parsed, and one
\* that does not parse stays the string it was (ValueError is only logged)
LoadStatus(f) ==
    IF ~f.exists THEN Empty
    ELSE [k \in DOMAIN f.data |->
            IF k \in TimestampKeys /\ IsIsoString(f.data[k])
            THEN FromIsoFormat(f.data[k])
            ELSE f.data[k]]

\* variant: the Jira block forgets the task id and the file
SaveStatus_TimestampOnly(st) ==
    (IF "last_jira_backup" \in DOMAIN st
     THEN [last_jira_backup |-> IsoFormat(st["last_jira_backup"])]
     ELSE Empty)
    @@
    (IF "last_confluence_backup" \in DOMAIN st
     THEN [last_confluence_backup |-> IsoFormat(st["last_confluence_backup"]),
           confluence_file |-> Get(st, "confluence_file", NonePath)]
     ELSE Empty)

\* save_status: what json.dump writes; the fields of a service are written only
\* with its timestamp
SaveStatus(st) ==
    (IF "last_jira_backup" \in DOMAIN st
     THEN [last_jira_backup |-> IsoFormat(st["last_jira_backup"]),
           jira_task_id |-> Get(st, "jira_task_id", NoneId),
           jira_file |-> Get(st, "jira_file", NonePath)]
     ELSE Empty)
    @@
    (IF "last_confluence_backup" \in DOMAIN st
     THEN [last_confluence_backup |-> IsoFormat(st["last_confluence_backup"]),
           confluence_file |-> Get(st, "confluence_file", NonePath)]
     ELSE Empty)

\* .isoformat() and .astimezone() exist on datetime only: AttributeError on a str
HasDatetimes(st) == \A k \in TimestampKeys \cap DOMAIN st : IsDatetime(st[k])

\* prepare_backup_path: <cwd>/<folder>/<service>-backup-<YYYY-MM-DD>.zip
HoursPerDay == 24
PrepareBackupPath(service, t) == [dir |-> "cwd", name |-> service, day |-> t \div HoursPerDay]

-----------------------------------------------------------------------------
(* jira/client.py *)

\* datetime.fromtimestamp(ms / 1000, tz=utc); the model's second is one hour
FromTimestampMs(ms) == ms \div 1000
ToTimestampMs(t) == t * 1000

\* variant: the ids never compare equal (an int against the str of the file)
AlreadyProcessed_NeverEqual(sid, local_task_id, local_file) == FALSE

\* process_backup line 50
AlreadyProcessed(sid, local_task_id, local_file) ==
    sid # NoneId /\ sid = local_task_id /\ local_file # NonePath

\* variant: a response without "submitted" is let through
MissingSubmitted_Never(submitted_ms) == FALSE

\* _check_existing_task line 226: `if not submitted_ms`
MissingSubmitted(submitted_ms) == submitted_ms = NoTime

\* variant: strict comparison
WithinReuseWindow_Strict(t, c) == t - c < 24

\* _check_existing_task line 234: now - created <= timedelta(hours=24)
WithinReuseWindow(t, c) == t - c <= 24

\* str.upper() on the status strings the export endpoint uses
Upper(str) ==
    CASE str = "InProgress" -> "INPROGRESS"
      [] str = "Success"    -> "SUCCESS"
      [] str = "Complete"   -> "COMPLETE"
      [] str = "Failed"     -> "FAILED"
      [] OTHER              -> str

\* variant: a response that is not a success ends the loop
JiraClassify_GiveUp(resp) ==
    IF Upper(resp.status) \in {"COMPLETE", "DONE", "SUCCESSFUL"} \/ resp.progress = 100
    THEN "success"
    ELSE "failure"

\* wait_for_completion lines 158-170
JiraClassify(resp) ==
    IF Upper(resp.status) \in {"COMPLETE", "DONE", "SUCCESSFUL"} \/ resp.progress = 100
    THEN "success"
    ELSE IF Upper(resp.status) \in {"FAILED", "ERROR"}
    THEN "failure"
    ELSE "continue"

\* the export server: a running task ends sooner or later, a finished one stays
JiraProgress(state) ==
    IF state = "running" THEN {"running", "done", "failed"} ELSE {state}

\* what getProgress reports for a task
JiraReport(state) ==
    CASE state = "running" -> {[status |-> "InProgress", progress |-> 50]}
      [] state = "done"    -> {[status |-> "Success", progress |-> 100],
                               [status |-> "Complete", progress |-> 99]}
      [] state = "failed"  -> {[status |-> "Failed", progress |-> 50],
                               [status |-> "Failed", progress |-> 100]}
      [] OTHER             -> {}

\* variant: the delta names the file and the task without the timestamp
JiraDelta_NoTimestamp(t, id, path) == [jira_task_id |-> id, jira_file |-> path]

\* the delta of _check_existing_task (lines 245-247) and _create_new_backup
\* (lines 273-275)
JiraDelta(t, id, path) ==
    [last_jira_backup |-> Dt(t), jira_task_id |-> id, jira_file |-> path]

\* variant: every failed poll is followed by a trigger
AfterPollFailure_TriggerAgain(mode) == "j_trigger"

\* variant: a failed poll of a reused task ends the Jira reconcile
AfterPollFailure_GiveUp(mode) == "c_status"

\* wait_for_completion returned False: _check_existing_task returns {} (the
\* `if` of line 236 has no else) and process_backup lines 63-64 go on to
\* _create_new_backup; in _create_new_backup (lines 265-277) {} is returned
AfterPollFailure(mode) == IF mode = "reuse" THEN "j_trigger" ELSE "c_status"

\* variant: every delta carries the time of the run
DeltaTime_AlwaysNow(mode, server_time, t) == t

\* the timestamp of a delta: `created` / conf_timestamp for a reused export
\* (jira/client.py line 245, confluence/client.py line 259), `now` for a new
\* one (jira/client.py line 273, confluence/client.py line 281)
DeltaTime(mode, server_time, t) == IF mode = "reuse" THEN server_time ELSE t

\* variant: the response is not examined
MissingTaskId_Never(answer) == FALSE

\* trigger_backup lines 130-133: `if not task_id: raise RuntimeError`
MissingTaskId(answer) == answer = "no taskId"

\* variant: the delta is built whether or not download_file returned
DeltaAfterDownload_Always(outcome) == TRUE

\* the lines after the call of download_file (jira/client.py lines 244-247 and
\* 272-275, confluence/client.py lines 257-260 and 279-282) run only when it
\* returned the path; an exception leaves the reconcile
DeltaAfterDownload(outcome) == outcome = "returned"

JiraRequests == {"jira_lastTaskId", "jira_task", "jira_trigger", "jira_progress",
                 "jira_result", "jira_download"}

-----------------------------------------------------------------------------
(* backup_controller.py: orchestrate, and the Jira reconcile *)

\* hours between two runs
Advance == {1, 25}

\* an exception leaves orchestrate
Raised ==
    /\ pc' = "raised"
    /\ result' = "error"

\* orchestrate lines 52-57 and JiraClient.process_backup up to its first request
StartRun ==
    /\ pc \in {"start", "returned", "raised"}
    /\ run < MaxRuns
    /\ run' = run + 1
    /\ \E d \in (IF run = 0 THEN {0} ELSE Advance) : now' = now + d
    /\ start_file' = status_file
    /\ status' = LoadStatus(status_file)
    /\ updated' = Empty
    /\ wrote' = FALSE
    /\ reqs' = <<>>
    /\ server_task_id' = NoneId
    /\ fetch_failed' = FALSE
    /\ http_error' = "none"
    /\ task_id' = NoneId
    /\ created' = NoTime
    /\ jira_mode' = "none"
    /\ polls' = 0
    /\ conf_response' = NoStatus
    /\ conf_status' = NoDescriptor
    /\ conf_branch' = "none"
    \* _log_last_backup_times
    /\ IF HasDatetimes(status')
       THEN pc' = "j_last" /\ result' = "none"
       ELSE Raised
    /\ dpc' = "idle"
    /\ UNCHANGED <<srvvars, status_file, dlrest, drvvars, cfgvars>>

\* how the lastTaskId request ends: a body (empty or an integer), an HTTP error
\* status, no connection, a body that is not an integer
LastTaskIdAnswers == {"ok", "HTTPError", "ConnectionError", "RuntimeError"}

\* fetch_last_task_id, then process_backup lines 46-59
JiraFetchLast ==
    /\ pc = "j_last"
    /\ reqs' = Append(reqs, "jira_lastTaskId")
    /\ \E answer \in LastTaskIdAnswers :
        \* `except Exception` (line 92) catches whatever the request raised
        /\ fetch_failed' = (answer # "ok")
        /\ http_error' = (IF answer = "HTTPError" THEN "jira_lastTaskId" ELSE http_error)
        /\ server_task_id' = (IF answer # "ok" THEN NoneId ELSE srv_last)
    /\ LET local_task_id == Get(status, "jira_task_id", NoneId)
           local_file == Get(status, "jira_file", NonePath)
       IN  IF AlreadyProcessed(server_task_id', local_task_id, local_file)
           THEN pc' = "c_status" /\ task_id' = task_id
           ELSE IF server_task_id' # NoneId
           THEN pc' = "j_info" /\ task_id' = server_task_id'
           ELSE pc' = "j_trigger" /\ task_id' = task_id
    /\ UNCHANGED <<srvvars, status_file, start_file, run, now, status, updated, result,
                   wrote, created, jira_mode, polls, conf_response, conf_status,
                   conf_branch, dlvars, drvvars, cfgvars>>

\* fetch_task_info, then _check_existing_task lines 224-236
JiraTaskInfo ==
    /\ pc = "j_info"
    /\ reqs' = Append(reqs, "jira_task")
    /\ \E http_ok \in BOOLEAN :
        \* task_id is the id lastTaskId just answered with
        LET submitted_ms == srv_task.submitted
        IN  IF ~http_ok \/ MissingSubmitted(submitted_ms)
            THEN /\ Raised
                 /\ http_error' = (IF ~http_ok THEN "jira_task" ELSE http_error)
                 /\ UNCHANGED <<created, jira_mode>>
            ELSE /\ created' = FromTimestampMs(submitted_ms)
                 /\ result' = result
                 /\ http_error' = http_error
                 /\ IF WithinReuseWindow(now, created')
                    THEN pc' = "j_poll" /\ jira_mode' = "reuse"
                    ELSE pc' = "j_trigger" /\ jira_mode' = jira_mode
    /\ polls' = 0
    /\ UNCHANGED <<srvvars, status_file, start_file, run, now, status, updated, wrote,
                   server_task_id, fetch_failed, task_id, conf_response, conf_status,
                   conf_branch, dlvars, drvvars, cfgvars>>

\* trigger_backup, from _create_new_backup line 264
JiraTrigger ==
    /\ pc = "j_trigger"
    /\ reqs' = Append(reqs, "jira_trigger")
    /\ \E answer \in {"taskId", "no taskId", "http error"} :
        IF answer = "http error"
        THEN /\ Raised
             /\ http_error' = "jira_trigger"
             /\ UNCHANGED <<srv_last, srv_task, task_id, jira_mode>>
        ELSE LET new == srv_last + 1
             IN  /\ srv_last' = new
                 /\ http_error' = http_error
                 /\ srv_task' = [submitted |-> ToTimestampMs(now), state |-> "running"]
                 \* task_id = resp.json().get('taskId')
                 /\ task_id' = (IF answer = "taskId" THEN new ELSE NoneId)
                 /\ IF ~MissingTaskId(answer)
                    THEN /\ jira_mode' = "new"
                         /\ pc' = "j_poll"
                         /\ result' = result
                    ELSE Raised /\ UNCHANGED jira_mode
    /\ polls' = 0
    /\ UNCHANGED <<conf_mode, conf, conf_pending, status_file, start_file, run, now,
                   status, updated, wrote, server_task_id, fetch_failed, created,
                   conf_response, conf_status, conf_branch, dlvars, drvvars, cfgvars>>

\* one pass of the loop of wait_for_completion (lines 151-170)
JiraPoll ==
    /\ pc = "j_poll"
    /\ reqs' = Append(reqs, "jira_progress")
    /\ \/ /\ Raised
          /\ http_error' = "jira_progress"
          /\ UNCHANGED <<srv_task, polls>>
       \/ \E st \in JiraProgress(srv_task.state) : \E resp \in JiraReport(st) :
            /\ srv_task' = [srv_task EXCEPT !.state = st]
            /\ http_error' = http_error
            /\ result' = result
            /\ CASE JiraClassify(resp) = "success" ->
                        pc' = "j_url" /\ polls' = polls
                 [] JiraClassify(resp) = "failure" ->
                        \* _check_existing_task returns {} and process_backup goes on
                        \* to _create_new_backup; _create_new_backup returns {}
                        /\ pc' = AfterPollFailure(jira_mode)
                        /\ polls' = polls
                 [] OTHER ->
                        \* time.sleep(self.poll_interval)
                        /\ polls < MaxPolls
                        /\ pc' = pc
                        /\ polls' = polls + 1
    /\ UNCHANGED <<srv_last, conf_mode, conf, conf_pending, status_file, start_file, run,
                   now, status, updated, wrote, server_task_id, fetch_failed, task_id,
                   created, jira_mode, conf_response, conf_status, conf_branch, dlvars, drvvars, cfgvars>>

\* get_download_url (lines 181-197)
JiraGetUrl ==
    /\ pc = "j_url"
    /\ reqs' = Append(reqs, "jira_result")
    /\ \E answer \in {"result", "no result", "http error"} :
        /\ IF answer = "result"
           THEN pc' = "j_download" /\ result' = result
           ELSE Raised
        /\ http_error' = (IF answer = "http error" THEN "jira_result" ELSE http_error)
    /\ UNCHANGED <<srvvars, status_file, start_file, run, now, status, updated, wrote,
                   server_task_id, fetch_failed, task_id, created, jira_mode, polls,
                   conf_response, conf_status, conf_branch, dlvars, drvvars, cfgvars>>

\* download_file called from download_backup_file (line 210): it returns the
\* path or raises; then lines 245-247 / 273-275 and orchestrate line 62
JiraDownload ==
    /\ pc = "j_download"
    /\ reqs' = Append(reqs, "jira_download")
    /\ dpc' \in {"returned", "raised"}
    /\ IF DeltaAfterDownload(dpc')
       THEN /\ updated' = JiraDelta(DeltaTime(jira_mode, created, now),
                                    task_id, PrepareBackupPath("jira", now)) @@ updated
            /\ pc' = "c_status"
            /\ result' = result
       ELSE Raised /\ UNCHANGED updated
    /\ UNCHANGED <<srvvars, status_file, start_file, run, now, status, wrote,
                   server_task_id, fetch_failed, http_error, task_id, created, jira_mode, polls,
                   conf_response, conf_status, conf_branch, dlrest, drvvars, cfgvars>>

-----------------------------------------------------------------------------
(* confluence/client.py, and the end of orchestrate *)

\* variant: 404 is not recognised as "unavailable"
UnavailableCodes_No404 == {401, 403}

\* get_backup_status line 70
UnavailableCodes == {401, 403, 404}

\* get_backup_status: None (skip the service), "raise", or the descriptor
BackupStatusOutcome(code) ==
    IF code = 204 THEN "None"
    ELSE IF RaisesForStatus(code)
    THEN (IF code \in UnavailableCodes THEN "None" ELSE "raise")
    ELSE "descriptor"

\* values of "time" that are no timestamp: one that is not a number (a str),
\* and a number beyond the platform's time_t
TimeWrongType == -1
TimeBeyondTimeT == -2

\* datetime.fromtimestamp(conf_time / 1000, tz=timezone.utc), line 229
FromTimestampRaises(time) ==
    CASE time = TimeWrongType      -> "TypeError"
      [] time = TimeBeyondTimeT    -> "OverflowError"
      [] OTHER                     -> "none"

\* except (ValueError, TypeError): line 237
CaughtInCanUse == {"ValueError", "TypeError"}

\* the exception leaves _can_use_existing_backup
CanUseRaises(d) ==
    /\ d.time # NoTime
    /\ FromTimestampRaises(d.time) \notin CaughtInCanUse \cup {"none"}

\* variant: a backup aged exactly one week still counts
CanUseExistingBackup_Inclusive(d, t) ==
    /\ d.time # NoTime
    /\ FromTimestampRaises(d.time) = "none"
    /\ ~(IF d.isOutdated = "missing" THEN TRUE ELSE d.isOutdated = "true")
    /\ FromTimestampMs(d.time) >= t - 7 * 24
    /\ d.currentStatus = "COMPLETE"

\* _can_use_existing_backup (lines 225-236)
CanUseExistingBackup(d, t) ==
    /\ d.time # NoTime
    /\ FromTimestampRaises(d.time) = "none"
    /\ ~(IF d.isOutdated = "missing" THEN TRUE ELSE d.isOutdated = "true")
    /\ FromTimestampMs(d.time) > t - 7 * 24
    /\ d.currentStatus = "COMPLETE"

\* the delta of _use_existing_backup (lines 259-260) and _create_new_backup
\* (lines 281-282)
ConfDelta(t, path) == [last_confluence_backup |-> Dt(t), confluence_file |-> path]

ConfRequests == {"conf_status", "conf_trigger", "conf_progress", "conf_download"}

\* the Confluence server between two requests: a triggered export starts and
\* replaces the descriptor, a running export ends, a finished export is lost
\* (the descriptor turns FAILED)
ConfStep(sv) ==
    {sv}
    \cup (IF sv.pending
          THEN {[pending |-> FALSE,
                 conf |-> [time |-> ToTimestampMs(now), isOutdated |-> "false",
                           currentStatus |-> "RUNNING", filename |-> FALSE]]}
          ELSE {})
    \cup (IF ~sv.pending /\ sv.conf.currentStatus = "RUNNING"
          THEN {[pending |-> FALSE, conf |-> [sv.conf EXCEPT !.currentStatus = "COMPLETE",
                                                           !.filename = f]] : f \in BOOLEAN}
               \cup {[pending |-> FALSE, conf |-> [sv.conf EXCEPT !.currentStatus = "FAILED"]]}
          ELSE {})
    \cup (IF ~sv.pending /\ sv.conf.currentStatus = "COMPLETE"
          THEN {[pending |-> FALSE, conf |-> [sv.conf EXCEPT !.currentStatus = "FAILED",
                                                           !.filename = FALSE]]}
          ELSE {})

ConfEvolve == UNION {ConfStep(sv) : sv \in ConfStep([pending |-> conf_pending, conf |-> conf])}

\* variant: only the delta is kept
Merge_DeltaOnly(loaded, delta) == delta

\* orchestrate line 70: merged = {**status, **updated}, the delta wins
Merge(loaded, delta) == delta @@ loaded

\* orchestrate lines 68-74: persist iff the merged delta is not empty
Persist(upd) ==
    IF upd # Empty
    THEN LET merged == Merge(status, upd)
         IN  IF HasDatetimes(merged)
             THEN /\ status_file' = [exists |-> TRUE, data |-> SaveStatus(merged)]
                  /\ wrote' = TRUE
                  /\ result' = "true"
                  /\ pc' = "returned"
             ELSE Raised /\ UNCHANGED <<status_file, wrote>>
    ELSE /\ result' = "false"
         /\ pc' = "returned"
         /\ UNCHANGED <<status_file, wrote>>

\* get_backup_status, then process_backup lines 46-53
ConfStatus ==
    /\ pc = "c_status"
    /\ reqs' = Append(reqs, "conf_status")
    /\ conf_response' = conf_mode
    /\ http_error' = (IF RaisesForStatus(conf_mode) THEN "conf_status" ELSE http_error)
    /\ CASE BackupStatusOutcome(conf_mode) = "None" ->
                /\ Persist(updated)
                /\ UNCHANGED <<conf_status, conf_branch>>
         [] BackupStatusOutcome(conf_mode) = "raise" ->
                /\ Raised
                /\ UNCHANGED <<conf_status, conf_branch, status_file, wrote>>
         [] OTHER ->
                /\ conf_status' = conf
                /\ IF CanUseRaises(conf)
                   THEN Raised /\ UNCHANGED conf_branch
                   ELSE /\ IF CanUseExistingBackup(conf, now)
                           THEN conf_branch' = "reuse" /\ pc' = "c_file"
                           ELSE conf_branch' = "new" /\ pc' = "c_trigger"
                        /\ result' = result
                /\ UNCHANGED <<status_file, wrote>>
    /\ polls' = 0
    /\ UNCHANGED <<srvvars, start_file, run, now, status, updated, server_task_id,
                   fetch_failed, task_id, created, jira_mode, dlvars, drvvars, cfgvars>>

\* trigger_backup, from _create_new_backup line 277
ConfTrigger ==
    /\ pc = "c_trigger"
    /\ reqs' = Append(reqs, "conf_trigger")
    /\ \E http_ok \in BOOLEAN :
        /\ IF http_ok
           THEN conf_pending' = TRUE /\ pc' = "c_wait" /\ result' = result
           ELSE Raised /\ UNCHANGED conf_pending
        /\ http_error' = (IF http_ok THEN http_error ELSE "conf_trigger")
    /\ polls' = 0
    /\ UNCHANGED <<srv_last, srv_task, conf_mode, conf, status_file, start_file, run, now,
                   status, updated, wrote, server_task_id, fetch_failed, task_id,
                   created, jira_mode, conf_response, conf_status, conf_branch, dlvars, drvvars, cfgvars>>

\* one pass of the loop of wait_for_completion (lines 112-127)
ConfWaitCompletion ==
    /\ pc = "c_wait"
    /\ reqs' = Append(reqs, "conf_progress")
    /\ \/ /\ Raised
          /\ http_error' = "conf_progress"
          /\ UNCHANGED <<conf, conf_pending, polls, status_file, wrote>>
       \/ \E sv \in ConfEvolve :
            /\ http_error' = http_error
            /\ conf' = sv.conf
            /\ conf_pending' = sv.pending
            /\ CASE sv.conf.currentStatus = "COMPLETE" ->
                        /\ pc' = "c_file"
                        /\ polls' = 0
                        /\ UNCHANGED <<result, status_file, wrote>>
                 [] sv.conf.currentStatus \in {"FAILED", "ERROR"} ->
                        /\ Persist(updated)
                        /\ polls' = polls
                 [] OTHER ->
                        /\ polls < MaxPolls
                        /\ pc' = pc
                        /\ polls' = polls + 1
                        /\ UNCHANGED <<result, status_file, wrote>>
    /\ UNCHANGED <<srv_last, srv_task, conf_mode, start_file, run, now, status, updated,
                   server_task_id, fetch_failed, task_id, created, jira_mode,
                   conf_response, conf_status, conf_branch, dlvars, drvvars, cfgvars>>

\* wait_for_file: one pass of the loop of _wait_for_complete_status (lines
\* 158-172), then _get_download_details (lines 183-198)
ConfWaitFile ==
    /\ pc = "c_file"
    /\ reqs' = Append(reqs, "conf_progress")
    /\ \/ /\ Raised
          /\ http_error' = "conf_progress"
          /\ UNCHANGED <<conf, conf_pending, polls, status_file, wrote>>
       \/ \E sv \in ConfEvolve :
            /\ http_error' = http_error
            /\ conf' = sv.conf
            /\ conf_pending' = sv.pending
            /\ CASE sv.conf.currentStatus = "COMPLETE" /\ sv.conf.filename ->
                        /\ pc' = "c_download"
                        /\ polls' = polls
                        /\ UNCHANGED <<result, status_file, wrote>>
                 [] sv.conf.currentStatus = "COMPLETE" /\ ~sv.conf.filename ->
                        /\ Persist(updated)
                        /\ polls' = polls
                 [] sv.conf.currentStatus \in {"FAILED", "ERROR"} ->
                        /\ Persist(updated)
                        /\ polls' = polls
                 [] OTHER ->
                        /\ polls < MaxPolls
                        /\ pc' = pc
                        /\ polls' = polls + 1
                        /\ UNCHANGED <<result, status_file, wrote>>
    /\ UNCHANGED <<srv_last, srv_task, conf_mode, start_file, run, now, status, updated,
                   server_task_id, fetch_failed, task_id, created, jira_mode,
                   conf_response, conf_status, conf_branch, dlvars, drvvars, cfgvars>>

\* download_file called from _download_backup_file (line 213), then the delta
\* and the end of orchestrate
ConfDownload ==
    /\ pc = "c_download"
    /\ reqs' = Append(reqs, "conf_download")
    /\ dpc' \in {"returned", "raised"}
    /\ IF DeltaAfterDownload(dpc')
       THEN /\ updated' = ConfDelta(DeltaTime(conf_branch, FromTimestampMs(conf_status.time), now),
                                    PrepareBackupPath("confluence", now)) @@ updated
            /\ Persist(updated')
       ELSE Raised /\ UNCHANGED <<updated, status_file, wrote>>
    /\ UNCHANGED <<srvvars, start_file, run, now, status, server_task_id, fetch_failed,
                   http_error, task_id, created, jira_mode, polls, conf_response, conf_status,
                   conf_branch, dlrest, drvvars, cfgvars>>

-----------------------------------------------------------------------------
(* The specification of orchestrate *)

\* download_file is not under study here
DownloadIdle ==
    /\ resource = <<>>
    /\ init_file = <<>>
    /\ file_exists = FALSE
    /\ file = <<>>
    /\ bytes_successfully_written_to_disk = 0
    /\ current_expected_on_disk = 0
    /\ file_open_mode = "wb"
    /\ attempt = 0
    /\ stream = <<>>
    /\ dpc = "idle"
    /\ gets = 0
    /\ last_range = NoRange
    /\ last_status = NoStatus
    /\ only_206 = TRUE
    /\ sleeps = <<>>
    /\ error = NoError
    /\ failures = 0
    /\ last_failure = NoError

\* exports the Jira server may hold before the first run: a recent one in any
\* state, finished ones at the edge of the reuse window, one without "submitted"
InitialTasks ==
    {[submitted |-> ToTimestampMs(Now0 - 1), state |-> st] : st \in {"running", "done", "failed"}}
    \cup {[submitted |-> ToTimestampMs(Now0 - age), state |-> "done"] : age \in {24, 25}}
    \cup {[submitted |-> NoTime, state |-> "done"]}

\* descriptors the Confluence server may serve before the first run: a fresh
\* complete backup, and descriptors that differ from it in one field
FreshDescriptor ==
    [time |-> ToTimestampMs(Now0 - 7 * 24 + 1), isOutdated |-> "false",
     currentStatus |-> "COMPLETE", filename |-> TRUE]

InitialDescriptors ==
    {FreshDescriptor}
    \cup {[FreshDescriptor EXCEPT !.time = t] : t \in {NoTime, ToTimestampMs(Now0 - 7 * 24)}}
    \cup {[FreshDescriptor EXCEPT !.time = t] :
            t \in {TimeWrongType, TimeBeyondTimeT}}
    \cup {[FreshDescriptor EXCEPT !.isOutdated = o] : o \in {"true", "missing"}}
    \cup {[FreshDescriptor EXCEPT !.currentStatus = st, !.filename = FALSE] :
            st \in {"RUNNING", "FAILED"}}
    \cup {[FreshDescriptor EXCEPT !.filename = FALSE]}

ConfModes == {200, 204, 401, 403, 404, 500}

\* status files earlier runs may have left
JiraRecorded ==
    [exists |-> TRUE,
     data |-> SaveStatus(JiraDelta(Now0 - 30, 1, PrepareBackupPath("jira", Now0 - 30)))]

ConfRecorded ==
    [exists |-> TRUE,
     data |-> SaveStatus(ConfDelta(Now0 - 30, PrepareBackupPath("confluence", Now0 - 30)))]

\* a status file that names files without the timestamp of their service
\* (json written by hand or by another tool; save_status never writes it)
FilesWithoutTimestamp ==
    [exists |-> TRUE,
     data |-> [jira_task_id |-> 1,
               jira_file |-> PrepareBackupPath("jira", Now0 - 30),
               confluence_file |-> PrepareBackupPath("confluence", Now0 - 30)]]

\* a status file whose Jira timestamp is not an ISO date
MalformedTimestamp ==
    [exists |-> TRUE,
     data |-> [last_jira_backup |-> [text |-> "yesterday"],
               jira_task_id |-> 1,
               jira_file |-> PrepareBackupPath("jira", Now0 - 30)]]

Init ==
    /\ DownloadIdle
    /\ DriverIdle
    /\ ConfigIdle
    /\ srv_last \in {NoneId, 1}
    /\ srv_task \in (IF srv_last = 1 THEN InitialTasks ELSE {NoTask})
    /\ conf_mode \in ConfModes
    /\ conf \in (IF conf_mode = 200 THEN InitialDescriptors ELSE {NoDescriptor})
    /\ conf_pending = FALSE
    /\ status_file \in {NoFile, ConfRecorded, MalformedTimestamp}
                       \cup (IF srv_last = 1 THEN {JiraRecorded, FilesWithoutTimestamp} ELSE {})
    /\ start_file = status_file
    /\ run = 0
    /\ pc = "start"
    /\ now = Now0
    /\ status = Empty
    /\ updated = Empty
    /\ result = "none"
    /\ wrote = FALSE
    /\ reqs = <<>>
    /\ server_task_id = NoneId
    /\ fetch_failed = FALSE
    /\ http_error = "none"
    /\ task_id = NoneId
    /\ created = NoTime
    /\ jira_mode = "none"
    /\ polls = 0
    /\ conf_response = NoStatus
    /\ conf_status = NoDescriptor
    /\ conf_branch = "none"

Next ==
    \/ StartRun
    \/ JiraFetchLast
    \/ JiraTaskInfo
    \/ JiraTrigger
    \/ JiraPoll
    \/ JiraGetUrl
    \/ JiraDownload
    \/ ConfStatus
    \/ ConfTrigger
    \/ ConfWaitCompletion
    \/ ConfWaitFile
    \/ ConfDownload

Spec == Init /\ [][Next]_vars

\* orchestrate is one sequential thread: while a step is possible the next
\* step is taken (every request returns or raises)
FairSpec == Init /\ [][Next]_vars /\ WF_vars(Next)

TypeOK ==
    /\ pc \in {"start", "j_last", "j_info", "j_trigger", "j_poll", "j_url", "j_download",
               "c_status", "c_trigger", "c_wait", "c_file", "c_download",
               "returned", "raised"}
    /\ run \in 0..MaxRuns
    /\ srv_last \in 0..(MaxRuns + 1)
    /\ polls \in 0..MaxPolls
    /\ result \in {"none", "true", "false", "error"}
    /\ DOMAIN updated \subseteq {"last_jira_backup", "jira_task_id", "jira_file",
                                 "last_confluence_backup", "confluence_file"}

-----------------------------------------------------------------------------
(* main(): main.py lines 60-104, backup.py lines 541-574 *)

Programs == {"main.py", "backup.py"}

\* entries of the comma-separated list: a name, a name with a blank, nothing
InstanceNames == {"a", " b", ""}

\* str.strip()
Strip(name) == IF name = " b" THEN "b" ELSE name

\* f"https://{name}.atlassian.net"
Url(name) == [scheme |-> "https", host |-> name, domain |-> "atlassian.net"]

RECURSIVE NamesUpTo(_)
NamesUpTo(n) ==
    IF n = 0 THEN {<<>>}
    ELSE LET shorter == NamesUpTo(n - 1)
         IN  shorter \cup {Append(q, c) : q \in shorter, c \in InstanceNames}

\* names = [name.strip() for name in instance_names.split(',') if name.strip()]
\* urls = [f"https://{name}.atlassian.net" for name in names]
RECURSIVE UrlsOf(_)
UrlsOf(names) ==
    IF names = <<>> THEN <<>>
    ELSE LET rest == UrlsOf(Tail(names))
         IN  IF Strip(Head(names)) # "" THEN <<Url(Strip(Head(names)))>> \o rest ELSE rest

\* JiraClient.__init__(self, url, username, api_token, poll_interval=30)
JiraClientMaxArgs == 4
\* JiraClient(url, username, api_token, poll_interval, self.backup_target_directory)
JiraClientArgsPassed == 5

\* what constructing the controller raises, NoError if nothing
ConstructorRaises(prog) ==
    IF prog = "main.py" /\ JiraClientArgsPassed > JiraClientMaxArgs
    THEN "TypeError"
    ELSE NoError

\* a task response without "submitted": ValueError in jira/client.py line 228,
\* sys.exit(1) in backup.py line 438
MissingSubmittedRaises(prog) == IF prog = "backup.py" THEN "SystemExit" ELSE "ValueError"

\* what orchestrate may raise
OrchestrateRaises(prog) ==
    {"HTTPError", "ConnectionError", "RuntimeError", MissingSubmittedRaises(prog)}

\* `except Exception`: SystemExit derives from BaseException only
CaughtByExceptException(exc) == exc # "SystemExit"

DriverInit ==
    /\ DownloadIdle
    /\ OrchestrateIdle
    /\ ConfigIdle
    /\ program \in Programs
    /\ instance_names \in NamesUpTo(MaxInstances)
    /\ urls = <<>>
    /\ pos = 0
    /\ mpc = "config"
    /\ attempts = <<>>
    /\ success_count = 0
    /\ escaped = NoError

\* the except clause of the loop, or the exception leaving main
Handle(exc) ==
    IF CaughtByExceptException(exc)
    THEN /\ pos' = pos + 1
         /\ mpc' = "loop"
         /\ escaped' = escaped
    ELSE /\ pos' = pos
         /\ mpc' = "exit"
         /\ escaped' = exc

\* main.py lines 60-85: the configuration, up to the loop
DriverConfigure ==
    /\ mpc = "config"
    /\ urls' = UrlsOf(instance_names)
    /\ \E credentials \in BOOLEAN :
        IF urls' = <<>> \/ ~credentials
        THEN \* sys.exit(1)
             /\ mpc' = "exit"
             /\ escaped' = "SystemExit"
             /\ pos' = pos
        ELSE /\ mpc' = "loop"
             /\ escaped' = escaped
             /\ pos' = 1
    /\ UNCHANGED <<program, instance_names, attempts, success_count, dlvars, srvvars, runvars, cfgvars>>

\* main.py lines 88-97: the next url, and the construction of its controller
DriverConstruct ==
    /\ mpc = "loop"
    /\ pos <= Len(urls)
    /\ attempts' = Append(attempts, urls[pos])
    /\ IF ConstructorRaises(program) # NoError
       THEN Handle(ConstructorRaises(program))
       ELSE /\ mpc' = "constructed"
            /\ UNCHANGED <<pos, escaped>>
    /\ UNCHANGED <<program, instance_names, urls, success_count, dlvars, srvvars, runvars, cfgvars>>

\* main.py lines 98-102: controller.orchestrate() returns or raises
DriverOrchestrate ==
    /\ mpc = "constructed"
    /\ \/ /\ success_count' = success_count + 1
          /\ pos' = pos + 1
          /\ mpc' = "loop"
          /\ escaped' = escaped
       \/ \E exc \in OrchestrateRaises(program) :
            /\ Handle(exc)
            /\ success_count' = success_count
    /\ UNCHANGED <<program, instance_names, urls, attempts, dlvars, srvvars, runvars, cfgvars>>

\* main.py line 104: the loop is over
DriverFinish ==
    /\ mpc = "loop"
    /\ pos > Len(urls)
    /\ mpc' = "done"
    /\ UNCHANGED <<program, instance_names, urls, pos, attempts, success_count, escaped,
                   dlvars, srvvars, runvars, cfgvars>>

DriverNext ==
    \/ DriverConfigure
    \/ DriverConstruct
    \/ DriverOrchestrate
    \/ DriverFinish

DriverSpec == DriverInit /\ [][DriverNext]_vars

DriverTypeOK ==
    /\ program \in Programs
    /\ mpc \in {"config", "loop", "constructed", "done", "exit"}
    /\ pos \in 0..(Len(urls) + 1)
    /\ Len(attempts) <= Len(urls)
    /\ success_count \in 0..Len(urls)

-----------------------------------------------------------------------------
(* main.py get_config_value, and the folders of file_utils.py *)

\* `if value:` - None and the empty string are false
Truthy(v) == v # NoneValue /\ v # ""

\* variant: the properties file is asked first
GetConfigValue_FileFirst(env, props, default) ==
    IF props.section /\ props.key THEN props.value
    ELSE IF Truthy(env) THEN env
    ELSE default

\* get_config_value (main.py lines 52-58)
GetConfigValue(env, props, default) ==
    IF Truthy(env) THEN env
    ELSE IF props.section /\ props.key THEN props.value
    ELSE default

\* sanitize_folder_name: the url without its scheme
SanitizeFolderName(u) == [host |-> u.host, domain |-> u.domain]

\* FileManager.get_backup_folder (file_utils.py lines 32-42)
GetBackupFolder(backup_target_directory, folder_name) ==
    IF Truthy(backup_target_directory)
    THEN [base |-> backup_target_directory, folder |-> folder_name]
    ELSE [base |-> "cwd", folder |-> folder_name]

\* the FileManager of the controller: FileManager(url, backup_target_directory=...)
\* (backup_controller.py line 37); it names the status file
ControllerFolder(url, target) == GetBackupFolder(target, SanitizeFolderName(url))

\* the FileManager of the clients: FileManager(self.url) (jira/client.py lines
\* 241 and 269, confluence/client.py line 192); it names the archives
ClientFolder(url, target) == GetBackupFolder(NoneValue, SanitizeFolderName(url))

EnvValues == {NoneValue, "", "/env"}

PropertiesFiles ==
    {[section |-> FALSE, key |-> FALSE, value |-> ""],
     [section |-> TRUE, key |-> FALSE, value |-> ""],
     [section |-> TRUE, key |-> TRUE, value |-> ""],
     [section |-> TRUE, key |-> TRUE, value |-> "/file"]}

Defaults == {NoneValue, "/default"}

ConfigInit ==
    /\ DownloadIdle
    /\ OrchestrateIdle
    /\ DriverIdle
    /\ env_value \in EnvValues
    /\ properties \in PropertiesFiles
    /\ default_value \in Defaults
    /\ config_value = NoneValue
    /\ instance_url \in {Url("a"), Url("b")}
    /\ written = [k \in {} |-> 0]
    /\ cpc = "config"

\* main.py line 77: backup_target_directory = get_config_value(...)
ReadConfigValue ==
    /\ cpc = "config"
    /\ config_value' = GetConfigValue(env_value, properties, default_value)
    /\ cpc' = "run"
    /\ UNCHANGED <<env_value, properties, default_value, instance_url, written,
                   dlvars, srvvars, runvars, drvvars>>

\* prepare_backup_path("Jira") before the Jira download
WriteJiraArchive ==
    /\ cpc = "run"
    /\ DOMAIN written = {}
    /\ written' = ("jira" :> ClientFolder(instance_url, config_value))
    /\ UNCHANGED <<env_value, properties, default_value, config_value, instance_url, cpc,
                   dlvars, srvvars, runvars, drvvars>>

\* prepare_backup_path("Confluence") before the Confluence download
WriteConfluenceArchive ==
    /\ cpc = "run"
    /\ DOMAIN written \subseteq {"jira"}
    /\ written' = ("confluence" :> ClientFolder(instance_url, config_value)) @@ written
    /\ UNCHANGED <<env_value, properties, default_value, config_value, instance_url, cpc,
                   dlvars, srvvars, runvars, drvvars>>

\* save_status at the end of orchestrate, when a delta exists
WriteStatusFile ==
    /\ cpc = "run"
    /\ DOMAIN written # {}
    /\ "status" \notin DOMAIN written
    /\ written' = ("status" :> ControllerFolder(instance_url, config_value)) @@ written
    /\ UNCHANGED <<env_value, properties, default_value, config_value, instance_url, cpc,
                   dlvars, srvvars, runvars, drvvars>>

ConfigNext ==
    \/ ReadConfigValue
    \/ WriteJiraArchive
    \/ WriteConfluenceArchive
    \/ WriteStatusFile

ConfigSpec == ConfigInit /\ [][ConfigNext]_vars

ConfigTypeOK ==
    /\ cpc \in {"config", "run"}
    /\ DOMAIN written \subseteq {"jira", "confluence", "status"}
    /\ config_value \in {NoneValue, "", "/env", "/file", "/default"}

-----------------------------------------------------------------------------
(* Properties of download_file *)

IsPrefix(p, s) == Len(p) <= Len(s) /\ p = SubSeq(s, 1, Len(p))

RECURSIVE WriteBody(_, _)
WriteBody(content, body) ==
    IF body = <<>> THEN content
    ELSE WriteBody(WriteChunk(content, body), Tail_(body, Min(ChunkSize, Len(body))))

\* the file a download into an empty destination leaves: no Range header, a 200
\* with the whole resource, written chunk by chunk
NonResumedDownload(res) == WriteBody(OpenFile(OpenModeFor(0, 200), <<>>), res)

\* the destination held the first N > 0 bytes of the resource, and every request
\* of the call so far was answered 206
ResumedWith206 ==
    /\ Len(init_file) > 0
    /\ Len(init_file) < Len(resource)
    /\ IsPrefix(init_file, resource)
    /\ only_206

\* C2: resume correctness. When the destination starts with the first N > 0
\* bytes of the resource and the server answers the range requests with 206 and
\* the remaining bytes, the file download_file returns has the full length of
\* the resource and is byte-identical to a non-resumed download.
C2_ResumeCorrect ==
    (dpc = "returned" /\ ResumedWith206) =>
        /\ Len(file) = Len(resource)
        /\ file = NonResumedDownload(resource)

C2_Witness ==
    /\ dpc = "returned"
    /\ ResumedWith206
    /\ gets >= 2
    /\ file = resource

BackoffSchedule == <<1, 2, 4, 8, 16>>

\* C3: backoff schedule. The sleep after the k-th failed attempt is 2^(k-1)
\* seconds: at any time the sleeps made are the first `attempt` entries of
\* 1, 2, 4, 8, 16, one per failed attempt, and a call that returns after k
\* failed attempts made k + 1 requests and slept exactly the first k delays.
C3_BackoffSchedule ==
    /\ attempt <= Len(BackoffSchedule)
    /\ sleeps = SubSeq(BackoffSchedule, 1, attempt)
    /\ dpc = "returned" => (failures = attempt /\ gets = attempt + 1 /\ error = NoError)

C3_Witness ==
    /\ dpc = "returned"
    /\ failures = 3
    /\ sleeps = <<1, 2, 4>>

\* C4: bounded retry. A call issues at most 6 GET requests; when 6 attempts
\* have failed with a retriable error the call has raised that last error, has
\* slept 5 times (nothing after the 6th failure) and has not returned.
C4_BoundedRetry ==
    /\ gets <= 6
    /\ failures <= 6
    /\ (failures = 6 /\ last_status < 400) =>
          /\ dpc = "raised"
          /\ error \in RetriableErrors
          /\ error = last_failure
          /\ Len(sleeps) = 5
          /\ gets = 6

C4_Witness ==
    /\ failures = 6
    /\ dpc = "raised"
    /\ error = "IncompleteRead"
    /\ Len(file) > Len(init_file)

\* C5: an HTTP error status (>= 400) on any attempt is not retried:
\* download_file has raised HTTPError, with no sleep after that response and
\* no further request, however many attempts remained.
C5_HttpErrorNotRetried ==
    last_status >= 400 =>
        /\ dpc = "raised"
        /\ error = "HTTPError"
        /\ Len(sleeps) = attempt
        /\ gets = attempt + 1
        /\ failures = attempt + 1

C5_Witness ==
    /\ last_status = 500
    /\ dpc = "raised"
    /\ attempt = 2

-----------------------------------------------------------------------------
(* Properties of orchestrate *)

JiraKeys == {"last_jira_backup", "jira_task_id", "jira_file"}
ConfluenceKeys == {"last_confluence_backup", "confluence_file"}

\* the requests of the current run that went to Jira, to Confluence, in order
JiraSeq == SelectSeq(reqs, LAMBDA r : r \in JiraRequests)
ConfSeq == SelectSeq(reqs, LAMBDA r : r \in ConfRequests)

Count(r) == Len(SelectSeq(reqs, LAMBDA x : x = r))

\* C1: when the loaded status records jira_task_id = T with a jira_file and
\* lastTaskId answers T, the Jira reconcile of that run makes no task-info,
\* trigger, poll or download request and contributes nothing to the delta; a
\* run that follows a run which downloaded T downloads nothing.
C1_JiraIdempotent ==
    (/\ pc \notin {"start", "j_last"}
     /\ ~fetch_failed
     /\ server_task_id # NoneId
     /\ server_task_id = Get(status, "jira_task_id", NoneId)
     /\ Get(status, "jira_file", NonePath) # NonePath)
    => /\ JiraSeq = <<"jira_lastTaskId">>
       /\ DOMAIN updated \cap JiraKeys = {}
       /\ pc \notin {"j_info", "j_trigger", "j_poll", "j_url", "j_download"}

\* the second of two runs: the first triggered export 2, downloaded it and
\* recorded it; the server still names export 2
C1_Witness ==
    /\ run = 2
    /\ pc = "returned"
    /\ server_task_id = 2
    /\ srv_last = 2
    /\ Get(status, "jira_task_id", NoneId) = 2
    /\ Get(status, "jira_file", NonePath) = PrepareBackupPath("jira", Now0)
    /\ Count("jira_download") = 0

\* C6: once the task info of a server task that is not recorded as processed
\* is fetched: if now - submitted <= 24 h the next Jira request is the poll of
\* that task, with no trigger before it; if now - submitted > 24 h the next
\* Jira request is the trigger, and whatever is polled or downloaded later is
\* not that task.
C6_ReuseWindow ==
    created # NoTime =>
        /\ Len(JiraSeq) >= 2
        /\ JiraSeq[1] = "jira_lastTaskId"
        /\ JiraSeq[2] = "jira_task"
        /\ IF now - created <= 24
           THEN /\ Len(JiraSeq) = 2 => (pc = "j_poll" /\ task_id = server_task_id)
                /\ Len(JiraSeq) >= 3 => JiraSeq[3] = "jira_progress"
           ELSE /\ Len(JiraSeq) = 2 => pc = "j_trigger"
                /\ Len(JiraSeq) >= 3 => JiraSeq[3] = "jira_trigger"
                /\ (\E i \in 1..Len(JiraSeq) :
                        JiraSeq[i] \in {"jira_progress", "jira_result", "jira_download"})
                   => task_id # server_task_id
                /\ "jira_task_id" \in DOMAIN updated
                   => updated["jira_task_id"] # server_task_id

\* a task submitted exactly 24 h ago is polled and downloaded without a trigger
C6_Witness ==
    /\ created # NoTime
    /\ now - created = 24
    /\ Count("jira_trigger") = 0
    /\ Count("jira_download") = 1
    /\ "jira_task_id" \in DOMAIN updated
    /\ updated["jira_task_id"] = server_task_id

\* what the claim calls reusable, for the descriptor the status query returned
Reusable(d, t) ==
    /\ d.isOutdated = "false"
    /\ d.time # NoTime
    /\ d.time > ToTimestampMs(t - 7 * 24)
    /\ d.currentStatus = "COMPLETE"

\* C7: a fetched descriptor is reused iff isOutdated is false, its timestamp is
\* strictly later than now - 7 days and currentStatus is COMPLETE; one aged
\* exactly 7 days, one without isOutdated and one without a timestamp are not
\* reused, and a descriptor that is not reused leads to a trigger.
C7_ConfluenceFreshness ==
    conf_response = 200 =>
        /\ conf_branch \in {"reuse", "new"} \/ CanUseRaises(conf_status)
        /\ conf_branch = "reuse" <=> Reusable(conf_status, now)
        /\ (\/ conf_status.time = ToTimestampMs(now - 7 * 24)
            \/ conf_status.isOutdated = "missing"
            \/ conf_status.time = NoTime) => conf_branch = "new"
        /\ conf_branch = "reuse" => Count("conf_trigger") = 0 /\ pc # "c_trigger"
        /\ conf_branch = "new" =>
                /\ Len(ConfSeq) = 1 => pc = "c_trigger"
                /\ Len(ConfSeq) >= 2 => ConfSeq[2] = "conf_trigger"

\* a complete, not outdated descriptor aged exactly 7 days has led to a trigger
C7_Witness ==
    /\ conf_response = 200
    /\ conf_status.time = ToTimestampMs(now - 7 * 24)
    /\ conf_status.isOutdated = "false"
    /\ conf_status.currentStatus = "COMPLETE"
    /\ Count("conf_trigger") = 1

\* C8: when the Confluence status query answers 204, or fails with 401, 403 or
\* 404, the Confluence reconcile returns an empty delta after that one request
\* (no trigger, poll or download); any other HTTP error on the query leaves
\* orchestrate as a failure.
C8_UnavailableShortCircuit ==
    /\ conf_response \in {204, 401, 403, 404} =>
        /\ ConfSeq = <<"conf_status">>
        /\ DOMAIN updated \cap ConfluenceKeys = {}
        /\ pc = "returned"
        /\ result \in {"true", "false"}
    /\ (conf_response >= 400 /\ conf_response \notin {401, 403, 404}) =>
        /\ ConfSeq = <<"conf_status">>
        /\ pc = "raised"
        /\ result = "error"

\* the query failed with 404 in a run whose Jira reconcile had a delta
C8_Witness ==
    /\ conf_response = 404
    /\ pc = "returned"
    /\ DOMAIN updated = JiraKeys
    /\ wrote

\* the scenario of C9, with the export and the download succeeding
FirstRunScenario ==
    /\ ~start_file.exists
    /\ ~fetch_failed
    /\ server_task_id = NoneId
    /\ conf_response = 204
    /\ srv_task.state = "done"
    /\ pc = "returned"

\* C9: with no status file, an empty lastTaskId and Confluence answering 204,
\* orchestrate triggers exactly one Jira export, polls it to success,
\* downloads it, writes a status file holding last_jira_backup, jira_task_id
\* and jira_file and no Confluence field, and returns true.
C9_FirstRun ==
    FirstRunScenario =>
        /\ Len(JiraSeq) >= 5
        /\ JiraSeq[1] = "jira_lastTaskId"
        /\ JiraSeq[2] = "jira_trigger"
        /\ \A i \in 3..(Len(JiraSeq) - 2) : JiraSeq[i] = "jira_progress"
        /\ JiraSeq[Len(JiraSeq) - 1] = "jira_result"
        /\ JiraSeq[Len(JiraSeq)] = "jira_download"
        /\ Count("jira_trigger") = 1
        /\ task_id = srv_last
        /\ wrote
        /\ status_file.exists
        /\ DOMAIN status_file.data = JiraKeys
        /\ status_file.data["last_jira_backup"] = IsoFormat(Dt(now))
        /\ status_file.data["jira_task_id"] = task_id
        /\ status_file.data["jira_file"] = PrepareBackupPath("jira", now)
        /\ result = "true"

\* the scenario has run to its end, the export having needed a second poll
C9_Witness ==
    /\ FirstRunScenario
    /\ run = 1
    /\ Count("jira_progress") = 2
    /\ result = "true"

\* C10: at the end of a run the status file was written iff the merged delta
\* is not empty, and true is the result in exactly that case; with an empty
\* delta the file is as it was and the result is false.
C10_WritesIffDelta ==
    pc \in {"returned", "raised"} =>
        /\ wrote <=> updated # Empty
        /\ result = "true" <=> updated # Empty
        /\ updated = Empty => status_file = start_file
        /\ (updated = Empty /\ pc = "returned") => result = "false"

\* C11: when the Jira reconcile has returned a delta and the Confluence
\* reconcile then fails, the run still persists the Jira delta merged over the
\* loaded status.
C11_PartialFailurePersisted ==
    (/\ pc = "raised"
     /\ DOMAIN updated = JiraKeys
     /\ Len(ConfSeq) >= 1)
    => /\ wrote
       /\ status_file.exists
       /\ status_file.data = SaveStatus(updated @@ status)

\* C12: a run that made a Jira request and has ended, by a return or by an
\* error, has also run the Confluence reconcile.
C12_BothReconcilesAttempted ==
    (pc \in {"returned", "raised"} /\ Len(JiraSeq) >= 1) => Len(ConfSeq) >= 1

\* C13: once the loop over the instances is over, by its end or by an
\* exception leaving main, every configured instance was attempted exactly
\* once, in list order, whatever failed for the instances before it.
C13_EveryInstanceAttempted ==
    (pos >= 1 /\ mpc \in {"done", "exit"}) => attempts = urls

\* C14: when fetching the last task id fails (not by an HTTP error status),
\* the Jira reconcile makes no further request, triggers nothing and adds
\* nothing to the delta, and the run goes on to the Confluence reconcile.
C14_FetchFailureEmptyDelta ==
    (fetch_failed /\ http_error # "jira_lastTaskId") =>
        /\ JiraSeq = <<"jira_lastTaskId">>
        /\ DOMAIN updated \cap JiraKeys = {}
        /\ pc \notin {"j_info", "j_trigger", "j_poll", "j_url", "j_download"}

\* the four Jira requests C15 names
FatalJiraRequests == {"jira_lastTaskId", "jira_task", "jira_trigger", "jira_progress"}

\* C15: an HTTP error status is fatal for the reconcile it occurs in, unless
\* it is the Confluence status query answering 401, 403 or 404: after such an
\* answer to the Jira lastTaskId, task-info, trigger or progress request the
\* run has failed and has made no further request.
C15_HttpErrorFatal ==
    /\ http_error \in FatalJiraRequests =>
        /\ pc = "raised"
        /\ result = "error"
        /\ reqs[Len(reqs)] = http_error
        /\ DOMAIN updated \cap JiraKeys = {}
    /\ (http_error \in ConfRequests /\ conf_response \notin {401, 403, 404}) =>
        /\ pc = "raised"
        /\ reqs[Len(reqs)] = http_error

\* C16: a task-info response without a submitted timestamp makes the Jira
\* reconcile fail: the run ends in an error right after that request, with no
\* trigger, poll or download and no delta.
C16_MissingSubmittedFatal ==
    (/\ Count("jira_task") = 1
     /\ http_error # "jira_task"
     /\ created = NoTime)
    => /\ pc = "raised"
       /\ result = "error"
       /\ reqs = <<"jira_lastTaskId", "jira_task">>
       /\ updated = Empty
       /\ ~wrote

\* the server's task has no submitted timestamp and the task info was fetched
C16_Witness ==
    /\ pc = "raised"
    /\ reqs = <<"jira_lastTaskId", "jira_task">>
    /\ http_error = "none"
    /\ MissingSubmitted(srv_task.submitted)
    /\ server_task_id = srv_last

\* the file-without-timestamp case of C17, for the two services
FileWithoutTimestamp(st, file_key, time_key) ==
    file_key \in DOMAIN st /\ time_key \notin DOMAIN st

\* C17: a file field loaded without the timestamp of its service is treated
\* as absent: the loaded status does not hold it, and a jira_file without
\* last_jira_backup does not make the Jira reconcile skip the server's task.
C17_FileWithoutTimestampAbsent ==
    run >= 1 =>
        /\ ~FileWithoutTimestamp(status, "jira_file", "last_jira_backup")
        /\ ~FileWithoutTimestamp(status, "confluence_file", "last_confluence_backup")
        /\ (/\ start_file.exists
            /\ FileWithoutTimestamp(start_file.data, "jira_file", "last_jira_backup")
            /\ ~fetch_failed
            /\ server_task_id # NoneId
            /\ pc \notin {"start", "j_last", "j_info"})
           => Count("jira_task") = 1

\* C18: a timestamp of the status file that is not an ISO date is dropped by
\* load_status, and the run does not end in an error before its first
\* request because of it.
C18_MalformedTimestampDropped ==
    (/\ run >= 1
     /\ start_file.exists
     /\ \E k \in TimestampKeys \cap DOMAIN start_file.data : ~IsIsoString(start_file.data[k]))
    => /\ HasDatetimes(status)
       /\ ~(pc = "raised" /\ reqs = <<>>)

\* the descriptor the status query returned is the still reusable export whose
\* archive an earlier run downloaded and recorded
ConfluenceAlreadyRecorded ==
    /\ run >= 2
    /\ conf_response = 200
    /\ conf_branch = "reuse"
    /\ "last_confluence_backup" \in DOMAIN status
    /\ status["last_confluence_backup"] = Dt(FromTimestampMs(conf_status.time))
    /\ Get(status, "confluence_file", NonePath) # NonePath

\* C19: a Confluence reconcile that follows one which downloaded and recorded
\* the archive, with the server's descriptor unchanged, downloads nothing and
\* returns an empty delta.
C19_ConfluenceIdempotent ==
    ConfluenceAlreadyRecorded =>
        /\ Count("conf_download") = 0
        /\ pc # "c_download"
        /\ DOMAIN updated \cap ConfluenceKeys = {}

\* the Jira half of C20: a task inside the reuse window is polled before any
\* trigger of the run
JiraInFlightWaited ==
    (created # NoTime /\ now - created <= 24) =>
        \A i \in 1..Len(JiraSeq) :
            JiraSeq[i] = "jira_trigger" =>
                \E j \in 1..(i - 1) : JiraSeq[j] = "jira_progress"

\* the Confluence half of C20: a descriptor whose export is still running is
\* waited for, not answered with a trigger
ConfluenceInFlightWaited ==
    (conf_response = 200 /\ conf_status.currentStatus = "RUNNING") =>
        /\ Count("conf_trigger") = 0
        /\ pc # "c_trigger"

\* C20: for either service, an export the server reports as still running at
\* reconcile time is polled, and no trigger request is sent before it has
\* reached a terminal status.
C20_InFlightWaited ==
    /\ JiraInFlightWaited
    /\ ConfluenceInFlightWaited

\* C21: when a backup target directory is configured, every artefact of the
\* instance is written under <backup_target_directory>/<instance folder>, and
\* the archives lie in the folder of the status file.
C21_TargetDirectoryGoverns ==
    \A k \in DOMAIN written :
        /\ Truthy(config_value) =>
              written[k] = [base |-> config_value, folder |-> SanitizeFolderName(instance_url)]
        /\ "status" \in DOMAIN written => written[k] = written["status"]

\* C22 as stated: the variable's value whenever the variable is set, else the
\* key of the properties file when present, else the default.
C22_EnvWheneverSet ==
    cpc = "run" =>
        config_value = (IF env_value # NoneValue THEN env_value
                        ELSE IF properties.section /\ properties.key THEN properties.value
                        ELSE default_value)

\* C22, amended: the variable's value when it is set and not empty, else the
\* value of the key in the atlassian section when the key is present (an empty
\* value included), else the default (None when none is given).
C22_ConfigPrecedence ==
    cpc = "run" =>
        /\ env_value \notin {NoneValue, ""} => config_value = env_value
        /\ (env_value \in {NoneValue, ""} /\ properties.section /\ properties.key)
               => config_value = properties.value
        /\ (env_value \in {NoneValue, ""} /\ ~(properties.section /\ properties.key))
               => config_value = default_value

\* the variable is set to the empty string and the file has the key
C22_Witness ==
    /\ cpc = "run"
    /\ env_value = ""
    /\ properties.key
    /\ properties.value = "/file"
    /\ config_value = "/file"

\* C23: a progress response whose status is FAILED or ERROR ends the poll loop
\* with failure, never with success: while the polled task is failed (every
\* response for it says FAILED) the reconcile is not past the loop on the
\* success side, asking for the download address or downloading.
C23_FailedNeverSuccess ==
    pc \in {"j_url", "j_download"} => srv_task.state # "failed"

\* a trigger followed the poll of a task inside the reuse window
RetriedAfterReuse ==
    /\ created # NoTime
    /\ now - created <= 24
    /\ Count("jira_trigger") >= 1

ConfluenceStages == {"c_status", "c_trigger", "c_wait", "c_file", "c_download", "returned"}

\* C24: when the poll of a task inside the 24 h window ends in failure, the
\* same reconcile goes on to the trigger; the export it triggers is polled and
\* downloaded, and the delta then carries last_jira_backup = now and the id of
\* the new export; when the new export fails too, the reconcile ends with no
\* Jira field in the delta.
C24_RetryAfterFailedReuse ==
    /\ [](RetriedAfterReuse =>
            /\ JiraSeq[3] = "jira_progress"
            /\ http_error = "none" /\ pc = "j_poll" => task_id = srv_last
            /\ "jira_file" \in DOMAIN updated =>
                  /\ Count("jira_download") = 1
                  /\ updated["last_jira_backup"] = Dt(now)
                  /\ updated["jira_task_id"] = srv_last
                  /\ updated["jira_task_id"] # server_task_id
            /\ (pc \in ConfluenceStages /\ Count("jira_download") = 0) =>
                  /\ srv_task.state = "failed"
                  /\ DOMAIN updated \cap JiraKeys = {}
            /\ (pc \in ConfluenceStages /\ Count("jira_download") = 1) =>
                  "jira_file" \in DOMAIN updated)
    /\ [][(/\ pc = "j_poll"
           /\ jira_mode = "reuse"
           /\ srv_task'.state = "failed"
           /\ pc' \notin {"j_url", "raised"})
          => (pc' = "j_trigger" /\ updated' = updated)]_vars

\* the reused task failed, the new export was downloaded
C24_Witness ==
    /\ RetriedAfterReuse
    /\ Count("jira_trigger") = 1
    /\ Count("jira_download") = 1
    /\ "jira_file" \in DOMAIN updated
    /\ updated["last_jira_backup"] = Dt(now)
    /\ created < now

\* C25: a delta made by reusing an export carries the server's timestamp of
\* that export (Jira: the submitted time and the id of the reused task;
\* Confluence: the descriptor's time); a delta made by a newly triggered export
\* carries the time of the run (Jira: with the id the trigger returned).
C25_DeltaTimestamp ==
    /\ "last_jira_backup" \in DOMAIN updated =>
          IF Count("jira_trigger") = 0
          THEN /\ updated["last_jira_backup"] = Dt(FromTimestampMs(srv_task.submitted))
               /\ updated["jira_task_id"] = server_task_id
          ELSE /\ updated["last_jira_backup"] = Dt(now)
               /\ updated["jira_task_id"] = srv_last
    /\ "last_confluence_backup" \in DOMAIN updated =>
          IF Count("conf_trigger") = 0
          THEN updated["last_confluence_backup"] = Dt(FromTimestampMs(conf_status.time))
          ELSE updated["last_confluence_backup"] = Dt(now)

\* one run reuses a Jira task submitted an hour ago and a Confluence backup
\* made days ago
C25_Witness ==
    /\ Count("jira_trigger") = 0
    /\ Count("conf_trigger") = 0
    /\ "last_jira_backup" \in DOMAIN updated
    /\ "last_confluence_backup" \in DOMAIN updated
    /\ updated["last_jira_backup"] = Dt(now - 1)
    /\ updated["last_confluence_backup"] = Dt(now - 7 * 24 + 1)

\* C26: a trigger response without a task id makes the Jira reconcile fail
\* right after the trigger request: no poll, no download, no delta.
C26_MissingTaskIdFatal ==
    (/\ Count("jira_trigger") >= 1
     /\ http_error # "jira_trigger"
     /\ task_id = NoneId)
    => /\ pc = "raised"
       /\ result = "error"
       /\ reqs[Len(reqs)] = "jira_trigger"
       /\ DOMAIN updated \cap JiraKeys = {}
       /\ ~wrote

\* the trigger answered without a task id although the server started export 2
C26_Witness ==
    /\ pc = "raised"
    /\ Count("jira_trigger") = 1
    /\ Count("jira_progress") = 0
    /\ http_error = "none"
    /\ task_id = NoneId
    /\ srv_last = 2

\* C27: a descriptor whose timestamp cannot be interpreted is not reusable and
\* the reconcile goes on with the trigger; the test does not raise.
C27_UninterpretableNotReusable ==
    (conf_response = 200 /\ FromTimestampRaises(conf_status.time) # "none") =>
        /\ pc # "raised" \/ Len(ConfSeq) >= 2
        /\ conf_branch = "new"
        /\ Len(ConfSeq) = 1 => pc = "c_trigger"
        /\ Len(ConfSeq) >= 2 => ConfSeq[2] = "conf_trigger"

\* the bytes the destination holds, 0 when it does not exist
ActualSize == IF file_exists THEN Len(file) ELSE 0

\* C28: at the start of every attempt of download_file the offset of the range
\* request is the actual size of the destination at that moment (0 when it does
\* not exist): before the first attempt and after every retriable failure, one
\* that interrupted an overwrite from offset 0 included.
C28_OffsetIsFileSize ==
    /\ [](dpc = "attempt" => bytes_successfully_written_to_disk = ActualSize)
    /\ [][gets' = gets + 1 =>
            \/ current_expected_on_disk' = ActualSize
            \* a range request answered without 206 resets the offset (lines 90-98)
            \/ /\ dpc' = "stream"
               /\ ActualSize > 0
               /\ last_status' # 206
               /\ current_expected_on_disk' = 0]_vars

\* a retry after a failure that interrupted an overwrite from offset 0: the
\* range request had been answered 200, one chunk was written
C28_Witness ==
    /\ dpc = "attempt"
    /\ attempt >= 1
    /\ last_range # NoRange
    /\ last_status = 200
    /\ file_open_mode = "wb"
    /\ Len(file) > 0
    /\ Len(file) < Len(resource)
    /\ bytes_successfully_written_to_disk = Len(file)

\* the response was the answer 206 to a range request
Answered206 == last_range # NoRange /\ last_status = 206

\* C29: a Range header is sent iff the destination holds more than 0 bytes, and
\* it names the size of the destination; on 206 the body is appended after the
\* existing bytes; on any other answer without error status the destination is
\* truncated and written from offset 0, so that the file becomes the full body,
\* never the old bytes followed by the full body.
C29_RangeHandling ==
    /\ [][gets' = gets + 1 =>
            /\ last_range' # NoRange <=> ActualSize > 0
            /\ last_range' # NoRange => last_range' = ActualSize]_vars
    /\ [][(dpc = "attempt" /\ dpc' = "stream") =>
            IF last_range' # NoRange /\ last_status' = 206
            THEN file_open_mode' = "ab" /\ file' = file
            ELSE file_open_mode' = "wb" /\ file' = <<>> /\ stream' = resource]_vars
    /\ [][(dpc = "stream" /\ stream' # stream /\ dpc' = "stream") =>
            file' \o stream' = file \o stream]_vars
    /\ [](dpc \in {"stream", "returned"} /\ ~Answered206 => file \o stream = resource)
    /\ [](dpc = "returned" /\ ~Answered206 => file = resource)

\* the destination held bytes, the range request was answered 200, and the file
\* returned is the resource
C29_Witness ==
    /\ dpc = "returned"
    /\ Len(init_file) > 0
    /\ gets = 1
    /\ last_range = Len(init_file)
    /\ last_status = 200
    /\ file = resource

PollLoops == {"j_poll", "c_wait", "c_file"}

\* what the server said at the last check of the loop at position p
TerminalReported(p, task, descriptor) ==
    IF p = "j_poll"
    THEN task.state \in {"done", "failed"}
    ELSE descriptor.currentStatus \in {"COMPLETE", "FAILED", "ERROR"}

\* one step taken inside a poll loop: sleep and check again, or leave
PollLoopStep ==
    \/ /\ pc' = pc
       /\ polls' = polls + 1
       /\ Len(reqs') = Len(reqs) + 1
       /\ ~TerminalReported(pc, srv_task', conf')
    \/ /\ pc' # pc
       /\ (pc' = "raised" \/ TerminalReported(pc, srv_task', conf'))

\* C30: a poll loop is left only when the server reports a terminal status or
\* the request fails, and it is left then; after any other answer the loop
\* sleeps once and checks again, without limit. Once a loop is entered and the
\* server comes to report a terminal status, the reconcile ends.
C30_PollLoop ==
    /\ [][(pc \in PollLoops) => PollLoopStep]_vars
    /\ (pc = "j_poll") ~> (pc \in {"c_status", "raised"})
    /\ (pc \in {"c_wait", "c_file"}) ~> (pc \in {"returned", "raised"})

\* a Jira loop that slept after a non-terminal answer and was left at the
\* second check
C30_Witness ==
    /\ pc = "j_url"
    /\ polls = MaxPolls
    /\ Count("jira_progress") = MaxPolls + 1

\* a status file that load_status reads as a valid status: absent, or with ISO
\* timestamps and no file field without the timestamp of its service
ValidStatusFile(f) ==
    \/ ~f.exists
    \/ /\ \A k \in TimestampKeys \cap DOMAIN f.data : IsIsoString(f.data[k])
       /\ ~FileWithoutTimestamp(f.data, "jira_file", "last_jira_backup")
       /\ ~FileWithoutTimestamp(f.data, "confluence_file", "last_confluence_backup")

\* C31: the status file a run writes holds every field of the valid status
\* file it loaded that the delta does not name, with the value it had, and for
\* every key of the delta the delta's value (the timestamp in ISO format),
\* and nothing else.
C31_MergeFrame ==
    (wrote /\ ValidStatusFile(start_file)) =>
        /\ status_file.exists
        /\ DOMAIN status_file.data = DOMAIN start_file.data \cup DOMAIN updated
        /\ \A k \in DOMAIN start_file.data \ DOMAIN updated :
              status_file.data[k] = start_file.data[k]
        /\ \A k \in DOMAIN updated :
              status_file.data[k] = (IF k \in TimestampKeys THEN IsoFormat(updated[k])
                                     ELSE updated[k])

\* the run loaded the Confluence fields and a Jira record, and its delta
\* replaces the Jira record only
C31_Witness ==
    /\ wrote
    /\ run = 2
    /\ ConfluenceKeys \subseteq DOMAIN start_file.data
    /\ JiraKeys \subseteq DOMAIN start_file.data
    /\ DOMAIN updated = JiraKeys
    /\ status_file.data["jira_task_id"] # start_file.data["jira_task_id"]
    /\ status_file.data["confluence_file"] = start_file.data["confluence_file"]

\* C32: the Jira part of the delta of a run is empty or holds exactly
\* last_jira_backup, jira_task_id and jira_file, the Confluence part is empty or
\* holds exactly last_confluence_backup and confluence_file, each with a
\* timestamp and a path; a status file written by the run names no file
\* without the timestamp of its service.
C32_DeltaWellFormed ==
    /\ DOMAIN updated \subseteq JiraKeys \cup ConfluenceKeys
    /\ DOMAIN updated \cap JiraKeys \in {{}, JiraKeys}
    /\ DOMAIN updated \cap ConfluenceKeys \in {{}, ConfluenceKeys}
    /\ "jira_file" \in DOMAIN updated =>
          /\ IsDatetime(updated["last_jira_backup"])
          /\ updated["jira_task_id"] # NoneId
          /\ updated["jira_file"] # NonePath
    /\ "confluence_file" \in DOMAIN updated =>
          /\ IsDatetime(updated["last_confluence_backup"])
          /\ updated["confluence_file"] # NonePath
    /\ wrote =>
          /\ ~FileWithoutTimestamp(status_file.data, "jira_file", "last_jira_backup")
          /\ ~FileWithoutTimestamp(status_file.data, "confluence_file",
                                   "last_confluence_backup")

\* the run loaded a status naming a jira_file without its timestamp and wrote
\* a Confluence delta: the file it wrote has no jira_file
C32_Witness ==
    /\ wrote
    /\ FileWithoutTimestamp(start_file.data, "jira_file", "last_jira_backup")
    /\ DOMAIN updated = ConfluenceKeys
    /\ "jira_file" \notin DOMAIN status_file.data

\* the last n requests of the run
LastRequests(n) == IF Len(reqs) >= n THEN SubSeq(reqs, Len(reqs) - n + 1, Len(reqs)) ELSE <<>>

\* C33: a Jira delta appears only in the step in which download_file returned,
\* after a poll that ended in success and the request for the download
\* address, and it names the polled export; a Confluence delta appears only in
\* the step in which download_file returned, for a descriptor that is COMPLETE
\* and has a filename; a file name the written status file did not load comes
\* from such a delta.
C33_NoRecordWithoutDownload ==
    /\ [][("jira_file" \in DOMAIN updated' /\ "jira_file" \notin DOMAIN updated) =>
            /\ pc = "j_download"
            /\ dpc' = "returned"
            /\ LastRequests(2) = <<"jira_progress", "jira_result">>
            /\ srv_task.state \in {"done", "failed"}
            /\ updated'["jira_task_id"] = task_id
            /\ task_id = srv_last]_vars
    /\ [][("confluence_file" \in DOMAIN updated' /\ "confluence_file" \notin DOMAIN updated) =>
            /\ pc = "c_download"
            /\ dpc' = "returned"
            /\ LastRequests(1) = <<"conf_progress">>
            /\ conf.currentStatus = "COMPLETE"
            /\ conf.filename]_vars
    /\ [](pc = "raised" => ~wrote)
    /\ [](wrote =>
            \A k \in {"jira_file", "confluence_file"} \cap DOMAIN status_file.data :
                \/ k \in DOMAIN updated /\ status_file.data[k] = updated[k]
                \/ k \in DOMAIN start_file.data /\ status_file.data[k] = start_file.data[k])

\* a run in which the Jira download returned and the Confluence download failed
C33_Witness ==
    /\ pc = "raised"
    /\ dpc = "raised"
    /\ LastRequests(1) = <<"conf_download">>
    /\ DOMAIN updated = JiraKeys
    /\ status_file = start_file

\* C34: a run sends at most one Jira trigger and at most one Confluence
\* trigger, whatever the polls and downloads answer; after the Confluence
\* reconcile chose to reuse the existing backup it sends no trigger, also when
\* the poll that follows reports FAILED or ERROR.
C34_AtMostOneTrigger ==
    /\ Count("jira_trigger") <= 1
    /\ Count("conf_trigger") <= 1
    /\ conf_branch = "reuse" => (Count("conf_trigger") = 0 /\ pc # "c_trigger")

\* the reused Jira task failed and one trigger followed; the reused Confluence
\* backup was reported FAILED by the poll and the reconcile ended
C34_Witness ==
    /\ RetriedAfterReuse
    /\ Count("jira_trigger") = 1
    /\ conf_branch = "reuse"
    /\ conf.currentStatus = "FAILED"
    /\ LastRequests(1) = <<"conf_progress">>
    /\ pc = "returned"
    /\ Count("conf_trigger") = 0

\* C35: a run that finds on the server a most recent Jira export older than
\* 24 h triggers a new export, also when the status records that export and
\* its file: no Jira reconcile ends, without an error, leaving the server's
\* most recent export older than 24 h. (Nothing but a trigger of the run
\* changes srv_task, and a triggered export is submitted at the run's now.)
C35_StaleExportRefreshed ==
    (/\ pc \in ConfluenceStages
     /\ ~fetch_failed
     /\ server_task_id # NoneId
     /\ srv_task.submitted # NoTime
     /\ now - FromTimestampMs(srv_task.submitted) > 24)
    => Count("jira_trigger") >= 1

\* C36: when the destination already holds the complete resource and the
\* server answers the request of download_file with 416 or with 200, without
\* any connection failure, download_file returns and the file is the resource.
C36_DownloadIdempotent ==
    (/\ init_file = resource
     /\ last_failure = NoError
     /\ last_status \in {200, 416}
     /\ dpc \in {"returned", "raised"})
    => /\ dpc = "returned"
       /\ file = resource

\* C37: whenever download_file returns, the destination file equals the remote
\* resource, whatever the destination held before the call.
C37_ContentIntegrity ==
    dpc = "returned" => file = resource

\* C38: in the branch that triggers a Confluence export, the archive that is
\* downloaded and recorded is the one of the export triggered in this run: when
\* the download is reached and when the delta is recorded, the server has
\* started that export and its descriptor is the one polled.
C38_FreshExportRecorded ==
    (/\ conf_branch = "new"
     /\ pc = "c_download" \/ "confluence_file" \in DOMAIN updated)
    => /\ ~conf_pending
       /\ conf.time = ToTimestampMs(now)

=============================================================================
